---------------------------- MODULE Spec2Model ----------------------------
(***************************************************************************)
(* QR file transfer: the sender (boardcaster.py) cuts a file into chunks,  *)
(* wraps each in a JSON envelope {p, t, f, d} and hands the rendered       *)
(* symbols one at a time to the presenter; the receiver (receiver.py)      *)
(* collects decoded envelopes in main_scanner, detects completion, stall   *)
(* and interrupt, and writes the final file or a draft plus a manifest.    *)
(* Its worker processes (grabber_process, decoder_process) feed it through *)
(* two bounded queues and are terminated when it ends.                     *)
(*                                                                         *)
(* Encodings used by the model                                             *)
(*   bytes          sequences over ByteValues                              *)
(*   base64 text    sequences of characters: 0..63 the alphabet, PAD is    *)
(*                  '=', a larger number a character outside the alphabet  *)
(*   JSON numbers   n >= 0 the integer n; None (JSON null, Python None);   *)
(*                  NotInt (a JSON string where a number is expected);     *)
(*                  Unhashable (a JSON list or object)                     *)
(*   file names     strings; NoName is Python None                         *)
(*   a file on disk its bytes, or NoFile when it does not exist            *)
(***************************************************************************)
EXTENDS Integers, Sequences, FiniteSets, TLC

(***************************************************************************)
(* Bounds of the model.  CHUNK_SIZE_BYTES is 2048 in both programs         *)
(* (boardcaster.py:19, receiver.py:16) and SCAN_TIMEOUT_SECONDS is 5       *)
(* (receiver.py:19); the model scales both down and counts time in whole   *)
(* seconds.                                                                *)
(***************************************************************************)
CHUNK_SIZE_BYTES == 2

SCAN_TIMEOUT_SECONDS == 1

MaxFileLen == 4

MaxTime == 3

MaxSessions == 2

\* NUM_DECODERS is mp.cpu_count() (receiver.py:24); both queues have
\* maxsize=1000 (receiver.py:180-181).
NUM_DECODERS == 2

FRAME_QUEUE_MAXSIZE == 1

RESULT_QUEUE_MAXSIZE == 1

ByteValues == {0, 255}

PAD == 64

None == -1

NotInt == -2

Unhashable == -3

NoName == "None"

NoFile == <<-1>>

Min(a, b) == IF a < b THEN a ELSE b

\* math.ceil(file_size / CHUNK_SIZE_BYTES)
CeilDiv(a, b) == (a + b - 1) \div b

MaxParts == CeilDiv(MaxFileLen, CHUNK_SIZE_BYTES)

Files == UNION {[1..n -> ByteValues] : n \in 0..MaxFileLen}

Zeros(n) == [i \in 1..n |-> 0]

(***************************************************************************)
(* base64.b64encode: three bytes make four characters; one or two          *)
(* trailing bytes make two or three characters and '=' padding.            *)
(***************************************************************************)
RECURSIVE b64encode(_)
b64encode(bs) ==
    IF Len(bs) = 0 THEN <<>>
    ELSE IF Len(bs) = 1 THEN
        LET n == bs[1] * 65536
        IN  <<n \div 262144, (n \div 4096) % 64, PAD, PAD>>
    ELSE IF Len(bs) = 2 THEN
        LET n == bs[1] * 65536 + bs[2] * 256
        IN  <<n \div 262144, (n \div 4096) % 64, (n \div 64) % 64, PAD>>
    ELSE
        LET n == bs[1] * 65536 + bs[2] * 256 + bs[3]
        IN  <<n \div 262144, (n \div 4096) % 64, (n \div 64) % 64, n % 64>>
            \o b64encode(SubSeq(bs, 4, Len(bs)))

(***************************************************************************)
(* base64.b64decode with validate=False: characters outside the alphabet   *)
(* are skipped, a complete pad sequence ends the input, and leftover       *)
(* characters of an unfinished quad raise binascii.Error (ok = FALSE).     *)
(***************************************************************************)
RECURSIVE a2b_base64(_, _, _, _, _, _)
a2b_base64(s, i, quad_pos, leftchar, pads, out) ==
    IF i > Len(s) THEN [ok |-> quad_pos = 0, bytes |-> out]
    ELSE LET c == s[i] IN
        IF c = PAD THEN
            IF quad_pos >= 2 /\ quad_pos + pads + 1 >= 4
            THEN [ok |-> TRUE, bytes |-> out]
            ELSE a2b_base64(s, i + 1, quad_pos, leftchar,
                            IF quad_pos >= 2 THEN pads + 1 ELSE pads, out)
        ELSE IF c > PAD THEN a2b_base64(s, i + 1, quad_pos, leftchar, pads, out)
        ELSE IF quad_pos = 0 THEN a2b_base64(s, i + 1, 1, c, 0, out)
        ELSE IF quad_pos = 1 THEN
            a2b_base64(s, i + 1, 2, c % 16, 0,
                       Append(out, (leftchar * 4 + c \div 16) % 256))
        ELSE IF quad_pos = 2 THEN
            a2b_base64(s, i + 1, 3, c % 4, 0,
                       Append(out, (leftchar * 16 + c \div 4) % 256))
        ELSE a2b_base64(s, i + 1, 0, 0, 0,
                        Append(out, (leftchar * 64 + c) % 256))

b64decode(s) == a2b_base64(s, 1, 0, 0, 0, <<>>)

(***************************************************************************)
(* The sender's chunk source: f.read(CHUNK_SIZE_BYTES) at file offset pos. *)
(***************************************************************************)
read_skips_a_byte(file, pos, n) == SubSeq(file, pos + 2, Min(pos + n, Len(file)))

read(file, pos, n) == SubSeq(file, pos + 1, Min(pos + n, Len(file)))

\* The JSON object the sender encodes for one part (boardcaster.py payload).
Envelope(part_number, total_parts_, file_name, chunk_data) ==
    [kind |-> "obj", has |-> {"p", "t", "f", "d"},
     p |-> part_number, t |-> total_parts_, f |-> file_name,
     d |-> b64encode(chunk_data)]

\* The end-of-sequence sentinel put on the image queue (None).
Sentinel == [kind |-> "end", has |-> {}, p |-> 0, t |-> 0, f |-> NoName, d |-> <<>>]

\* os.path.basename(file_path) of the file the sender was started with.
FILE_NAME == "a"

\* The file names an envelope may carry: the sender's and a foreign one.
FileNames == {FILE_NAME, "b"}

\* No item: the value of qr_data_string outside the parsing of a result.
NoItem == [kind |-> "none", has |-> {}, p |-> 0, t |-> 0, f |-> NoName, d |-> <<>>]

\* missing_parts.json does not exist.
NoManifest == [filename |-> NoName, total_parts |-> None, missing |-> <<>>]

VARIABLES
    \* sender (boardcaster.py)
    src_file,            \* bytes of the file at file_path
    remediation_parts,   \* selector set; {} is None (full mode)
    gen_pc,              \* position of generation_thread
    f_pos,               \* offset of the open file in get_file_chunks
    part_number,         \* enumerate() counter of generation_thread
    img,                 \* the rendered unit generation_thread is about to put
    image_queue,         \* queue.Queue(maxsize=1)
    broadcast,           \* every unit put on image_queue so far, in order
    source_failed,       \* get_file_chunks or the thread hit an exception
    current_part,        \* QRPresenter.current_part
    presenter_ended,     \* show_end_message was called
    \* receiver (receiver.py)
    pc,                  \* position / terminal state of main_scanner
    qr_data_string,      \* the item just taken from result_queue
    chunks,              \* dict part number -> base64 text
    total_parts,
    output_filename,
    last_part_found_time,
    now,                 \* time.time(), in seconds
    draft_files,         \* DRAFT_<name> per file name
    missing_json,        \* missing_parts.json
    restored_files,      \* RESTORED_<name> per file name
    session,             \* number of the receiver run
    received,            \* part numbers dequeued in this run
    \* receiver worker processes
    frame_queue,         \* mp.Queue of screenshots
    result_queue,        \* mp.Queue of decoded symbol data
    grabber,             \* grabber_process: position and the frame it holds
    decoders             \* decoder_process per worker: position and data held

senderVars == <<src_file, remediation_parts, gen_pc, f_pos, part_number, img,
                image_queue, broadcast, source_failed, current_part,
                presenter_ended>>

receiverVars == <<pc, qr_data_string, chunks, total_parts, output_filename,
                  last_part_found_time, now, draft_files, missing_json,
                  restored_files, session, received>>

workerVars == <<frame_queue, result_queue, grabber, decoders>>

vars == <<senderVars, receiverVars, workerVars>>

(***************************************************************************)
(* Sender: generation_thread and QRPresenter.check_for_image.              *)
(***************************************************************************)
SenderInit(file, selector) ==
    /\ src_file = file
    /\ remediation_parts = selector
    /\ gen_pc = "start"
    /\ f_pos = 0
    /\ part_number = 0
    /\ img = Sentinel
    /\ image_queue = <<>>
    /\ broadcast = <<>>
    /\ source_failed = FALSE
    /\ current_part = 0
    /\ presenter_ended = FALSE

\* total_parts as generation_thread computes it from os.path.getsize.
total_parts_rounded_down == Len(src_file) \div CHUNK_SIZE_BYTES

sender_total_parts == CeilDiv(Len(src_file), CHUNK_SIZE_BYTES)

\* Line 139: a part outside a given selector is not rendered.
skips_nothing(n, selector) == FALSE

is_skipped(n, selector) == selector # {} /\ n \notin selector

\* queue.Queue(maxsize=1), main line 196.
two_slots == 1 + 1

image_queue_maxsize == 1

\* The thread starts: file size, total_parts and file_name are computed and
\* the generator get_file_chunks is created.
GenStart ==
    /\ gen_pc = "start"
    /\ gen_pc' = "iter"
    /\ UNCHANGED <<src_file, remediation_parts, f_pos, part_number, img,
                   image_queue, broadcast, source_failed, current_part,
                   presenter_ended>>
    /\ UNCHANGED receiverVars
    /\ UNCHANGED workerVars

\* One turn of the for loop: the generator reads the next chunk; an empty
\* read ends it; a part outside the selector is skipped; otherwise the
\* envelope is built and rendered.
GenRead ==
    /\ gen_pc = "iter"
    /\ LET chunk_data == read(src_file, f_pos, CHUNK_SIZE_BYTES) IN
        IF chunk_data = <<>>
        THEN /\ gen_pc' = "put_end"
             /\ UNCHANGED <<f_pos, part_number, img>>
        ELSE /\ f_pos' = f_pos + Len(chunk_data)
             /\ part_number' = part_number + 1
             /\ IF is_skipped(part_number + 1, remediation_parts)
                THEN /\ gen_pc' = "iter"
                     /\ UNCHANGED img
                ELSE /\ gen_pc' = "put"
                     /\ img' = Envelope(part_number + 1, sender_total_parts,
                                        FILE_NAME, chunk_data)
    /\ UNCHANGED <<src_file, remediation_parts, image_queue, broadcast,
                   source_failed, current_part, presenter_ended>>
    /\ UNCHANGED receiverVars
    /\ UNCHANGED workerVars

\* A read fault inside get_file_chunks ends the generator early; a fault in
\* the thread itself lands in its except clause.  Both go on to put None.
GenFault ==
    /\ gen_pc = "iter"
    /\ gen_pc' = "put_end"
    /\ source_failed' = TRUE
    /\ UNCHANGED <<src_file, remediation_parts, f_pos, part_number, img,
                   image_queue, broadcast, current_part, presenter_ended>>
    /\ UNCHANGED receiverVars
    /\ UNCHANGED workerVars

\* image_queue.put(img) blocks while the single slot is taken.
GenPut ==
    /\ gen_pc = "put"
    /\ Len(image_queue) < image_queue_maxsize
    /\ image_queue' = Append(image_queue, img)
    /\ broadcast' = Append(broadcast, img)
    /\ gen_pc' = "iter"
    /\ UNCHANGED <<src_file, remediation_parts, f_pos, part_number, img,
                   source_failed, current_part, presenter_ended>>
    /\ UNCHANGED receiverVars
    /\ UNCHANGED workerVars

\* image_queue.put(None)
GenPutEnd ==
    /\ gen_pc = "put_end"
    /\ Len(image_queue) < image_queue_maxsize
    /\ image_queue' = Append(image_queue, Sentinel)
    /\ broadcast' = Append(broadcast, Sentinel)
    /\ gen_pc' = "done"
    /\ UNCHANGED <<src_file, remediation_parts, f_pos, part_number, img,
                   source_failed, current_part, presenter_ended>>
    /\ UNCHANGED receiverVars
    /\ UNCHANGED workerVars

\* check_for_image finds an item: the sentinel ends the presentation (the
\* callback is not re-armed), anything else is displayed.
Present ==
    /\ ~presenter_ended
    /\ image_queue # <<>>
    /\ image_queue' = Tail(image_queue)
    /\ IF Head(image_queue) = Sentinel
       THEN presenter_ended' = TRUE /\ UNCHANGED current_part
       ELSE current_part' = current_part + 1 /\ UNCHANGED presenter_ended
    /\ UNCHANGED <<src_file, remediation_parts, gen_pc, f_pos, part_number,
                   img, broadcast, source_failed>>
    /\ UNCHANGED receiverVars
    /\ UNCHANGED workerVars

(***************************************************************************)
(* Receiver state at process start (main_scanner lines 190-193).           *)
(***************************************************************************)
EmptyDict == <<>>

ReceiverStart ==
    /\ pc = "check"
    /\ chunks = EmptyDict
    /\ total_parts = None
    /\ output_filename = NoName
    /\ last_part_found_time = now
    /\ qr_data_string = NoItem
    /\ received = {}

\* The workers where the model does not follow them: the results queue is
\* then represented by the items Get and Deliver choose.
NoFrame == [NoItem EXCEPT !.kind = "noframe"]

WorkersNotFollowed ==
    /\ frame_queue = <<>>
    /\ result_queue = <<>>
    /\ grabber = [pc |-> "none", img |-> NoFrame]
    /\ decoders = [d \in 1..NUM_DECODERS |-> [pc |-> "none", data |-> NoItem]]

ReceiverIdle ==
    /\ WorkersNotFollowed
    /\ now = 0
    /\ ReceiverStart
    /\ session = 1
    /\ draft_files = [n \in FileNames |-> NoFile]
    /\ missing_json = NoManifest
    /\ restored_files = [n \in FileNames \cup {NoName} |-> NoFile]

SenderIdle == SenderInit(<<>>, {})

\* The sender alone, for every file and every selector.
InitSender ==
    /\ \E file \in Files, selector \in SUBSET (1..(MaxParts + 1)) :
            SenderInit(file, selector)
    /\ ReceiverIdle

NextSender ==
    \/ GenStart
    \/ GenRead
    \/ GenFault
    \/ GenPut
    \/ GenPutEnd
    \/ Present

SpecSender == InitSender /\ [][NextSender]_vars

\* The generation thread keeps running while it is not blocked on the queue,
\* and the Tk main loop keeps calling check_for_image (root.after).
SpecSenderFair ==
    /\ SpecSender
    /\ WF_vars(GenStart \/ GenRead \/ GenPut \/ GenPutEnd)
    /\ WF_vars(Present)

\* The envelopes among what was broadcast (everything but the sentinel).
Units(seq) == SelectSeq(seq, LAMBDA u : u # Sentinel)

\* The decoded payloads of a sequence of envelopes, concatenated.
RECURSIVE DecodedConcat(_)
DecodedConcat(seq) ==
    IF seq = <<>> THEN <<>>
    ELSE b64decode(Head(seq).d).bytes \o DecodedConcat(Tail(seq))

\* C1: round-trip law.  When the chunk source has run to the end of the file
\* in full mode (no selector) without a read fault, the envelopes broadcast are
\* numbered 1..totalParts in order, every payload decodes, and the decoded
\* payloads concatenated in that order are exactly the bytes of the file.
C1_RoundTrip ==
    (gen_pc = "done" /\ remediation_parts = {} /\ ~source_failed) =>
        LET units == Units(broadcast) IN
        /\ Len(units) = sender_total_parts
        /\ \A i \in 1..Len(units) : units[i].p = i /\ b64decode(units[i].d).ok
        /\ DecodedConcat(units) = src_file

\* A full-mode run of a file of more than one chunk, the last one short, has ended.
C1_Witness ==
    /\ gen_pc = "done" /\ remediation_parts = {} /\ ~source_failed
    /\ Len(src_file) > CHUNK_SIZE_BYTES
    /\ Len(src_file) % CHUNK_SIZE_BYTES # 0
    /\ \E i \in 1..Len(src_file) : src_file[i] # 0

(***************************************************************************)
(* Receiver: main_scanner and save_draft_and_exit.                         *)
(***************************************************************************)
len(d) == Cardinality(DOMAIN d)

\* d[k] = v on a dict
Put(d, k, v) == [x \in DOMAIN d \cup {k} |-> IF x = k THEN v ELSE d[x]]

IsInt(v) == v >= 0

\* sorted(list(S)): the least element first.
RECURSIVE sorted(_)
sorted(S) ==
    IF S = {} THEN <<>>
    ELSE LET m == CHOOSE x \in S : \A y \in S : x <= y
         IN  <<m>> \o sorted(S \ {m})

\* The draft loading loop (lines 245-250): strides of CHUNK_SIZE_BYTES; an
\* empty read ends it; a stride that is not all zero is stored, base64
\* encoded, unless the key is already there.
RECURSIVE load_draft(_, _, _, _, _)
load_draft(data, i, pos, d, total) ==
    IF i > total THEN d
    ELSE LET chunk == read(data, pos, CHUNK_SIZE_BYTES) IN
        IF chunk = <<>> THEN d
        ELSE load_draft(data, i + 1, pos + Len(chunk),
                        IF /\ chunk # Zeros(CHUNK_SIZE_BYTES)
                           /\ chunk # Zeros(Len(chunk))
                           /\ i \notin DOMAIN d
                        THEN Put(d, i, b64encode(chunk))
                        ELSE d,
                        total)

\* Lines 239-253: nothing is loaded when DRAFT_<name> does not exist, or when
\* range(1, total_parts + 1) raises (total_parts is not an integer), which the
\* except clause of line 252 absorbs.
LoadedFromDraft(d, total, name) ==
    IF name \notin DOMAIN draft_files THEN d
    ELSE IF draft_files[name] = NoFile THEN d
    ELSE IF ~IsInt(total) THEN d
    ELSE load_draft(draft_files[name], 1, 0, d, total)

\* The test of line 230.
is_new_part_overwrites(part_num, d) == TRUE

is_new_part(part_num, d) == part_num \notin DOMAIN d

\* Lines 222-261 on one result item: what the session variables become, and
\* whether an exception left the loop (crash).  The exceptions of the inner
\* try (JSONDecodeError, KeyError, TypeError) keep what was assigned before
\* they were raised.
Same == [crash |-> FALSE, chunks |-> chunks, total_parts |-> total_parts,
         output_filename |-> output_filename,
         last_part_found_time |-> last_part_found_time]

Parsed(item) ==
    IF item.kind = "bytes" THEN [Same EXCEPT !.crash = TRUE]   \* UnicodeDecodeError
    ELSE IF item.kind = "text" THEN Same                       \* JSONDecodeError
    ELSE IF item.kind = "json" THEN Same                       \* TypeError at payload['p']
    ELSE IF "p" \notin item.has THEN Same                      \* KeyError
    ELSE IF "d" \notin item.has THEN Same                      \* KeyError
    ELSE IF item.p = Unhashable THEN Same                      \* TypeError at line 230
    ELSE IF ~is_new_part(item.p, chunks) THEN Same
    ELSE IF total_parts # None THEN
        [Same EXCEPT !.chunks = Put(chunks, item.p, item.d),
                     !.last_part_found_time = now]
    ELSE IF "t" \notin item.has THEN Same                      \* KeyError at line 232
    ELSE IF "f" \notin item.has THEN
        [Same EXCEPT !.total_parts = item.t]                   \* KeyError at line 233
    ELSE
        [Same EXCEPT !.total_parts = item.t,
                     !.output_filename = item.f,
                     !.chunks = Put(LoadedFromDraft(chunks, item.t, item.f),
                                    item.p, item.d),
                     !.last_part_found_time = now]

\* The loop of lines 278-279: what was written when it ended, and whether it
\* ended by an exception (a part that is no key, or base64 text that does not
\* decode).
RECURSIVE final_write(_, _, _, _)
final_write(d, i, total, out) ==
    IF i > total THEN [ok |-> TRUE, bytes |-> out]
    ELSE IF i \notin DOMAIN d THEN [ok |-> FALSE, bytes |-> out]
    ELSE LET r == b64decode(d[i]) IN
        IF ~r.ok THEN [ok |-> FALSE, bytes |-> out]
        ELSE final_write(d, i + 1, total, out \o r.bytes)

final_write_from_second(d, total) == final_write(d, 2, total, <<>>)

final_file(d, total) == final_write(d, 1, total, <<>>)

\* The test of line 270.
is_complete(d, total) == total # None /\ IsInt(total) /\ len(d) = total

\* The loop of lines 83-93: present parts decoded, absent non-final parts
\* zero filled; a part that does not decode raises and ends the writing.
RECURSIVE draft_write(_, _, _, _)
draft_write(d, i, total, out) ==
    IF i > total THEN out
    ELSE IF i \in DOMAIN d THEN
        LET r == b64decode(d[i]) IN
        IF ~r.ok THEN out
        ELSE draft_write(d, i + 1, total, out \o r.bytes)
    ELSE IF i # total THEN draft_write(d, i + 1, total, out \o Zeros(CHUNK_SIZE_BYTES))
    ELSE draft_write(d, i + 1, total, out)

\* Line 46
missing_parts_of(d, total) == sorted((1..total) \ DOMAIN d)

\* save_draft_and_exit(chunks, total_parts, output_filename); to is the
\* terminal state the run ends in when the function returns.
SaveDraftAndExit(to) ==
    IF total_parts = None \/ output_filename = NoName
    THEN /\ pc' = to
         /\ UNCHANGED <<draft_files, missing_json>>
    ELSE IF ~IsInt(total_parts)
    THEN /\ pc' = "CRASHED"                   \* TypeError at line 44
         /\ UNCHANGED <<draft_files, missing_json>>
    ELSE IF missing_parts_of(chunks, total_parts) = <<>>
    THEN /\ pc' = to
         /\ UNCHANGED <<draft_files, missing_json>>
    ELSE /\ pc' = to
         /\ missing_json' = [filename |-> output_filename,
                             total_parts |-> total_parts,
                             missing |-> missing_parts_of(chunks, total_parts)]
         /\ draft_files' = [draft_files EXCEPT ![output_filename] =
                                draft_write(chunks, 1, total_parts, <<>>)]

\* The stall test of line 214.
stall_at_timeout(d, total, elapsed) ==
    len(d) < total /\ elapsed >= SCAN_TIMEOUT_SECONDS

timed_out(d, total, elapsed) ==
    len(d) < total /\ elapsed > SCAN_TIMEOUT_SECONDS

\* Lines 212-217, the top of the loop.
StallCheck ==
    /\ pc = "check"
    /\ IF total_parts = None
       THEN pc' = "get" /\ UNCHANGED <<draft_files, missing_json>>
       ELSE IF ~IsInt(total_parts)
       THEN pc' = "CRASHED" /\ UNCHANGED <<draft_files, missing_json>>   \* TypeError
       ELSE IF timed_out(chunks, total_parts, now - last_part_found_time)
       THEN SaveDraftAndExit("STALLED")
       ELSE pc' = "get" /\ UNCHANGED <<draft_files, missing_json>>
    /\ UNCHANGED <<qr_data_string, chunks, total_parts, output_filename,
                   last_part_found_time, now, restored_files, session, received>>
    /\ UNCHANGED senderVars
    /\ UNCHANGED workerVars

\* result_queue.get(timeout=0.05) raises queue.Empty: sleep and loop again.
GetEmpty ==
    /\ pc = "get"
    /\ pc' = "check"
    /\ UNCHANGED <<qr_data_string, chunks, total_parts, output_filename,
                   last_part_found_time, now, draft_files, missing_json,
                   restored_files, session, received>>
    /\ UNCHANGED senderVars
    /\ UNCHANGED workerVars

\* Lines 222-293 on the item taken from the queue: parse and store, then the
\* completion test and the writing of the final file.  can_write is whether
\* the file system lets RESTORED_<name> be opened for writing.  The clock is
\* read once per item, so no second passes between the get and the parsing.
Parse(can_write) ==
    /\ pc = "parse"
    /\ LET r == Parsed(qr_data_string) IN
        /\ chunks' = r.chunks
        /\ total_parts' = r.total_parts
        /\ output_filename' = r.output_filename
        /\ last_part_found_time' = r.last_part_found_time
        /\ IF r.crash
           THEN /\ pc' = "CRASHED"
                /\ UNCHANGED <<draft_files, missing_json, restored_files>>
           ELSE IF ~is_complete(r.chunks, r.total_parts)
           THEN /\ pc' = "check"
                /\ UNCHANGED <<draft_files, missing_json, restored_files>>
           ELSE IF ~can_write
           THEN /\ pc' = "WRITE_FAULT"
                /\ UNCHANGED <<draft_files, missing_json, restored_files>>
           ELSE LET w == final_file(r.chunks, r.total_parts) IN
                /\ restored_files' =
                        [restored_files EXCEPT ![r.output_filename] = w.bytes]
                /\ IF w.ok
                   THEN /\ pc' = "COMPLETE"
                        /\ draft_files' =
                             [n \in DOMAIN draft_files |->
                                IF n = r.output_filename THEN NoFile
                                ELSE draft_files[n]]
                        /\ missing_json' = NoManifest
                   ELSE /\ pc' = "WRITE_FAULT"
                        /\ UNCHANGED <<draft_files, missing_json>>
    \* the name is overwritten by the next get; it keeps its value when the
    \* loop is left
    /\ qr_data_string' = IF pc' = "check" THEN NoItem ELSE qr_data_string
    /\ UNCHANGED <<now, session, received>>
    /\ UNCHANGED senderVars
    /\ UNCHANGED workerVars

\* Ctrl+C while the loop runs: the except clause of line 295.
Interrupt ==
    /\ pc \in {"check", "get"}
    /\ SaveDraftAndExit("INTERRUPTED")
    /\ UNCHANGED <<qr_data_string, chunks, total_parts, output_filename,
                   last_part_found_time, now, restored_files, session, received>>
    /\ UNCHANGED senderVars
    /\ UNCHANGED workerVars

\* A second of time passes.
Tick ==
    /\ pc \in {"check", "get"}
    /\ now < MaxTime
    /\ now' = now + 1
    /\ UNCHANGED <<pc, qr_data_string, chunks, total_parts, output_filename,
                   last_part_found_time, draft_files, missing_json,
                   restored_files, session, received>>
    /\ UNCHANGED senderVars
    /\ UNCHANGED workerVars

(***************************************************************************)
(* What the decoders can put on result_queue: any symbol on the screen.    *)
(***************************************************************************)
AllFields == {"p", "t", "f", "d"}

\* A full chunk that is not all zero, and base64 text that does not decode
\* (a single data character).
GoodChunk == [i \in 1..CHUNK_SIZE_BYTES |-> 255]

BadBase64 == <<0>>

PVals == {Unhashable} \cup (1..(MaxParts + 1))

DVals == {b64encode(GoodChunk), BadBase64}

\* The t and f an object may carry: those of the sender's file and of a
\* foreign file for every size, a null or non-integer t, a null f.
Headers ==
    {<<t, f>> : t \in 0..(MaxParts + 1), f \in FileNames}
    \cup {<<None, FILE_NAME>>, <<NotInt, FILE_NAME>>, <<MaxParts, NoName>>}

\* A JSON object with the fields of has; an absent field has no value.
Obj(has, p, t, f, d) ==
    [kind |-> "obj", has |-> has,
     p |-> IF "p" \in has THEN p ELSE 0,
     t |-> IF "t" \in has THEN t ELSE 0,
     f |-> IF "f" \in has THEN f ELSE NoName,
     d |-> IF "d" \in has THEN d ELSE <<>>]

\* Bytes that are not UTF-8, text that is not JSON, JSON that is not an object.
Other(kind) == [NoItem EXCEPT !.kind = kind]

\* Objects with every field, and objects of the sender's file with one field
\* left out.
Items ==
    {Other(k) : k \in {"bytes", "text", "json"}}
    \cup {Obj(AllFields, p, h[1], h[2], d) :
            p \in PVals, h \in Headers, d \in DVals}
    \cup {Obj(AllFields \ {x}, p, t, FILE_NAME, b64encode(GoodChunk)) :
            x \in AllFields, p \in 1..MaxParts, t \in 1..MaxParts}

\* result_queue.get returns an item (line 222).
Get ==
    /\ pc = "get"
    /\ \E item \in Items : qr_data_string' = item
    /\ pc' = "parse"
    /\ UNCHANGED <<chunks, total_parts, output_filename, last_part_found_time,
                   now, draft_files, missing_json, restored_files, session,
                   received>>
    /\ UNCHANGED senderVars
    /\ UNCHANGED workerVars

\* The disk when the receiver starts: clean, or holding what an earlier run
\* that had part 1 of 2 left behind.
EarlierChunks == Put(EmptyDict, 1, b64encode(GoodChunk))

Init ==
    /\ SenderIdle
    /\ WorkersNotFollowed
    /\ now = 0
    /\ ReceiverStart
    /\ session = 1
    /\ restored_files = [n \in FileNames \cup {NoName} |-> NoFile]
    /\ \/ /\ draft_files = [n \in FileNames |-> NoFile]
          /\ missing_json = NoManifest
       \/ /\ draft_files = [n \in FileNames |->
                              IF n = FILE_NAME
                              THEN draft_write(EarlierChunks, 1, 2, <<>>)
                              ELSE NoFile]
          /\ missing_json = [filename |-> FILE_NAME, total_parts |-> 2,
                             missing |-> missing_parts_of(EarlierChunks, 2)]

Next ==
    \/ StallCheck
    \/ GetEmpty
    \/ Get
    \/ \E can_write \in BOOLEAN : Parse(can_write)
    \/ Interrupt
    \/ Tick

\* The assembler on arbitrary result items.
Spec == Init /\ [][Next]_vars

(***************************************************************************)
(* A transfer of one file: the receiver sees only the envelopes the sender *)
(* presents for src_file, in any order and any number of times, the disk   *)
(* takes every write, and a run that ended with a draft may be followed by *)
(* another run of sender and receiver.                                     *)
(***************************************************************************)
\* get_file_chunks(file_path): the chunks read until the empty read.
RECURSIVE get_file_chunks(_, _)
get_file_chunks(file, pos) ==
    LET chunk == read(file, pos, CHUNK_SIZE_BYTES) IN
    IF chunk = <<>> THEN <<>>
    ELSE <<chunk>> \o get_file_chunks(file, pos + Len(chunk))

\* The envelopes generation_thread puts on image_queue for a file and selector.
Generated(file, selector) ==
    LET cs == get_file_chunks(file, 0)
        total == CeilDiv(Len(file), CHUNK_SIZE_BYTES)
    IN  {Envelope(n, total, FILE_NAME, cs[n]) :
            n \in {k \in 1..Len(cs) : selector = {} \/ k \in selector}}

InitTransfer ==
    /\ \E file \in Files : SenderInit(file, {})
    /\ ReceiverIdle

\* result_queue.get returns one of the envelopes on the sender's screen.
Deliver ==
    /\ pc = "get"
    /\ \E e \in Generated(src_file, remediation_parts) :
            /\ qr_data_string' = e
            /\ received' = received \cup {e.p}
    /\ pc' = "parse"
    /\ UNCHANGED <<chunks, total_parts, output_filename, last_part_found_time,
                   now, draft_files, missing_json, restored_files, session>>
    /\ UNCHANGED senderVars
    /\ UNCHANGED workerVars

\* After a stall or an interrupt both programs are run again: the sender in
\* full mode or with --remediate missing_parts.json, the receiver afresh
\* (lines 190-193); the disk is as the earlier run left it.
Restart ==
    /\ pc \in {"STALLED", "INTERRUPTED"}
    /\ session < MaxSessions
    /\ session' = session + 1
    /\ now' = 0
    /\ pc' = "check"
    /\ qr_data_string' = NoItem
    /\ chunks' = EmptyDict
    /\ total_parts' = None
    /\ output_filename' = NoName
    /\ last_part_found_time' = 0
    /\ received' = {}
    /\ \/ remediation_parts' = {}
       \/ /\ missing_json # NoManifest
          /\ remediation_parts' = {missing_json.missing[i] :
                                     i \in 1..Len(missing_json.missing)}
    /\ UNCHANGED <<draft_files, missing_json, restored_files>>
    /\ UNCHANGED <<src_file, gen_pc, f_pos, part_number, img, image_queue,
                   broadcast, source_failed, current_part, presenter_ended>>
    /\ UNCHANGED workerVars

NextTransfer ==
    \/ StallCheck
    \/ GetEmpty
    \/ Deliver
    \/ Parse(TRUE)
    \/ Interrupt
    \/ Tick
    \/ Restart

SpecTransfer == InitTransfer /\ [][NextTransfer]_vars

(***************************************************************************)
(* Properties.                                                             *)
(***************************************************************************)
sessionVars == <<chunks, total_parts, output_filename, last_part_found_time>>

\* The envelopes of the whole file in part order, as the sender emits them.
AllEnvelopes ==
    [n \in 1..sender_total_parts |->
        CHOOSE e \in Generated(src_file, {}) : e.p = n]

\* C2: order insensitivity.  In a run that is fed the envelopes of the whole
\* file (the sender in full mode), once every part 1..totalParts has been
\* taken from the results queue and parsed, in whatever order and with
\* whatever repetitions, the assembler is in COMPLETE and the final file is
\* the decoded payloads concatenated in the order 1..totalParts.
C2_OrderInsensitive ==
    (/\ remediation_parts = {}
     /\ sender_total_parts >= 1
     /\ pc # "parse"
     /\ received = 1..sender_total_parts)
    => /\ pc = "COMPLETE"
       /\ restored_files[FILE_NAME] = DecodedConcat(AllEnvelopes)

\* A first run completed with part 1 arriving last.
C2_Witness ==
    /\ pc = "COMPLETE" /\ session = 1
    /\ sender_total_parts >= 2
    /\ received = 1..sender_total_parts
    /\ qr_data_string.p = 1
    /\ restored_files[FILE_NAME] = src_file

\* The item being parsed is an envelope whose part number is already a key.
IsDuplicate(item) ==
    item.kind = "obj" /\ "p" \in item.has /\ item.p \in DOMAIN chunks

\* C3: duplicate idempotence.  Parsing an envelope whose partNumber is already
\* a key of chunks leaves chunks (keys and stored payloads), totalParts,
\* fileName and lastProgressTime unchanged.
C3_DuplicateIdempotent ==
    [][(pc = "parse" /\ IsDuplicate(qr_data_string)) => UNCHANGED sessionVars]_vars

\* A duplicate that carries another payload than the stored one is being
\* parsed, later than the last progress.
C3_Witness ==
    /\ pc = "parse" /\ IsDuplicate(qr_data_string)
    /\ "d" \in qr_data_string.has
    /\ qr_data_string.d # chunks[qr_data_string.p]
    /\ now > last_part_found_time

\* The condition of the stall rule.
StallCondition ==
    /\ total_parts # None /\ IsInt(total_parts)
    /\ now - last_part_found_time > SCAN_TIMEOUT_SECONDS
    /\ len(chunks) < total_parts

\* C4: stall rule.  A stall check (a step from the top of the loop that is
\* not an interrupt) ends the session STALLED if and only if
\* now - lastProgressTime > STALL_TIMEOUT and len(chunks) < totalParts, and
\* the session never becomes STALLED from a state with len(chunks) = totalParts.
C4_StallRule ==
    [][/\ (pc = "check" /\ pc' \notin {"check", "INTERRUPTED"})
            => (pc' = "STALLED" <=> StallCondition)
       /\ (pc # "STALLED" /\ pc' = "STALLED")
            => (pc = "check" /\ len(chunks) # total_parts)]_vars

\* A session with parts stalled.
C4_Witness ==
    /\ pc = "STALLED"
    /\ chunks # EmptyDict
    /\ now - last_part_found_time = SCAN_TIMEOUT_SECONDS + 1

\* The run ended in save_draft_and_exit and the draft and manifest were written.
Saved ==
    /\ pc \in {"STALLED", "INTERRUPTED"}
    /\ total_parts # None /\ IsInt(total_parts)
    /\ output_filename # NoName
    /\ (1..total_parts) \ DOMAIN chunks # {}

SetOf(seq) == {seq[i] : i \in 1..Len(seq)}

\* C5: resume completes a failed session.  In a run that follows a run which
\* ended STALLED or INTERRUPTED with a draft and a manifest with missing set M
\* (the sender restarted with selector M), once every part of M has been
\* taken from the results queue and parsed, the assembler is in COMPLETE and
\* the final file equals the original file.
C5_ResumeCompletes ==
    (/\ session >= 2
     /\ remediation_parts # {}
     /\ pc # "parse"
     /\ remediation_parts \subseteq received)
    => /\ pc = "COMPLETE"
       /\ restored_files[FILE_NAME] = src_file

\* C6: remediation closure.  When a run has written a manifest with missing
\* parts M from a chunks map with key set K, M united with K is exactly
\* 1..totalParts, and a sender run restricted to M, on any file of totalParts
\* parts, emits exactly the envelopes with partNumber in M.
C6_RemediationClosure ==
    Saved =>
        LET M == SetOf(missing_json.missing)
            K == DOMAIN chunks
        IN  /\ M \cup K = 1..total_parts
            /\ \A file \in Files :
                 CeilDiv(Len(file), CHUNK_SIZE_BYTES) = total_parts =>
                    {e.p : e \in Generated(file, M)} = M

\* What the claim says the draft holds: per part in ascending order the
\* decoded payload if present, CHUNK_SIZE_BYTES zero bytes if absent and not
\* final, nothing if absent and final.
RECURSIVE ExpectedDraft(_, _, _)
ExpectedDraft(d, i, total) ==
    IF i > total THEN <<>>
    ELSE (IF i \in DOMAIN d THEN b64decode(d[i]).bytes
          ELSE IF i # total THEN Zeros(CHUNK_SIZE_BYTES)
          ELSE <<>>)
         \o ExpectedDraft(d, i + 1, total)

IsAscending(seq) == \A i \in 1..(Len(seq) - 1) : seq[i] < seq[i + 1]

\* C7: draft and manifest content.  When a session with a non-empty chunks
\* map and at least one absent part is saved, the manifest's missing list is
\* {1..totalParts} minus keys(chunks) in ascending order, and the draft holds
\* in ascending part order the decoded payload of each present part and
\* exactly chunkSize zero bytes for each absent non-final part, with nothing
\* for an absent final part.
C7_DraftContent ==
    (Saved /\ chunks # EmptyDict) =>
        /\ SetOf(missing_json.missing) = (1..total_parts) \ DOMAIN chunks
        /\ IsAscending(missing_json.missing)
        /\ draft_files[output_filename] = ExpectedDraft(chunks, 1, total_parts)

\* What the envelope codec of the specification fails to decode: a malformed
\* structure, a missing field among p, t, f, d, a non-integer p or t, or a
\* payload that is not base64.
CodecRejects(item) ==
    \/ item.kind # "obj"
    \/ item.has # AllFields
    \/ ~IsInt(item.p)
    \/ ~IsInt(item.t)
    \/ ~b64decode(item.d).ok

\* C8: rejected envelopes have no effect.  Parsing an item the envelope codec
\* fails to decode leaves chunks, totalParts, fileName and lastProgressTime
\* unchanged, before the first part as well as while collecting.
C8_RejectedNoEffect ==
    [][(pc = "parse" /\ CodecRejects(qr_data_string)) => UNCHANGED sessionVars]_vars

\* C9: fault absorption.  No result item ends the assembler loop by an
\* exception: the loop ends only COMPLETE, STALLED, INTERRUPTED or with a
\* write fault on the final file.
C9_FaultsAbsorbed == pc # "CRASHED"

\* C10: session binding is immutable.  totalParts and fileName change only
\* once, together, in the step that accepts the first envelope, to the values
\* that envelope carries; once set neither changes.
C10_BindingImmutable ==
    [][/\ total_parts # None => total_parts' = total_parts
       /\ output_filename # NoName => output_filename' = output_filename
       /\ (total_parts' # total_parts \/ output_filename' # output_filename)
            => /\ pc = "parse"
               /\ chunks = EmptyDict /\ chunks' # EmptyDict
               /\ total_parts' = qr_data_string.t
               /\ output_filename' = qr_data_string.f]_vars

\* The length the claim gives part i of total: CHUNK_SIZE_BYTES, but for the
\* last part fileSize mod chunkSize when that is not 0.
ExpectedLength(i, total, size) ==
    IF i < total \/ size % CHUNK_SIZE_BYTES = 0
    THEN CHUNK_SIZE_BYTES
    ELSE size % CHUNK_SIZE_BYTES

\* C11: envelope metadata.  Every envelope put on the image queue, in full
\* mode and in selector mode, carries the file name of the source and
\* totalParts = ceil(fileSize / chunkSize); when a full-mode run has read the
\* source to its end, exactly totalParts envelopes were put, numbered
\* 1..totalParts, the payload of each decoding to chunkSize bytes except the
\* last, which decodes to fileSize mod chunkSize bytes (chunkSize when 0).
C11_EnvelopeMetadata ==
    LET units == Units(broadcast)
        size == Len(src_file)
        total == CeilDiv(size, CHUNK_SIZE_BYTES)
    IN  /\ \A i \in 1..Len(units) :
                units[i].f = FILE_NAME /\ units[i].t = total
        /\ (gen_pc = "done" /\ remediation_parts = {} /\ ~source_failed) =>
            /\ Len(units) = total
            /\ \A i \in 1..Len(units) :
                /\ units[i].p = i
                /\ Len(b64decode(units[i].d).bytes) = ExpectedLength(i, total, size)

\* A full-mode run of a file of several parts, the last one short, has put
\* all its envelopes and the sentinel.
C11_Witness ==
    /\ gen_pc = "done" /\ remediation_parts = {} /\ ~source_failed
    /\ Len(broadcast) >= 3
    /\ Len(b64decode(broadcast[Len(broadcast) - 1].d).bytes) < CHUNK_SIZE_BYTES

\* The part numbers a run is to hand over: those of the file that are in the
\* selector, all of them without a selector.
SelectedParts ==
    IF remediation_parts = {} THEN 1..sender_total_parts
    ELSE remediation_parts \cap (1..sender_total_parts)

\* What was handed over so far is selected parts in strictly increasing
\* order, the sentinel comes last and only once the generator is done, and a
\* run whose source did not fail has then handed over every selected part.
SchedulerSequenceOk ==
    LET units == Units(broadcast) IN
    /\ \A i \in 1..Len(broadcast) :
            broadcast[i] = Sentinel => (i = Len(broadcast) /\ gen_pc = "done")
    /\ \A i \in 1..Len(units) : units[i].p \in SelectedParts
    /\ \A i \in 1..(Len(units) - 1) : units[i].p < units[i + 1].p
    /\ gen_pc = "done" =>
        /\ broadcast # <<>> /\ broadcast[Len(broadcast)] = Sentinel
        /\ ~source_failed => {units[i].p : i \in 1..Len(units)} = SelectedParts

\* C12: scheduler sequence.  In every run the scheduler hands over exactly
\* the selected parts (all parts without a selector), each once, in strictly
\* increasing part order, then exactly one sentinel and nothing after it; and
\* the sentinel is eventually handed over and taken by the presenter, also
\* when the source fails.
C12_SchedulerSequence ==
    /\ []SchedulerSequenceOk
    /\ <>(presenter_ended /\ gen_pc = "done" /\ image_queue = <<>>)

\* A selector run that skipped a part has ended and the presenter has shown
\* the end message.
C12_Witness ==
    /\ presenter_ended /\ ~source_failed
    /\ remediation_parts # {}
    /\ current_part >= 1
    /\ current_part < sender_total_parts

\* Units and sentinel the presenter has taken from the queue.
Taken == current_part + (IF presenter_ended THEN 1 ELSE 0)

\* C17: single-slot rendezvous.  The image queue never holds more than one
\* item, and the scheduler has never put more than one item beyond those the
\* presenter has taken: unit k+1 is put only after unit k was taken.
C17_SingleSlot ==
    /\ Len(image_queue) <= 1
    /\ Len(broadcast) <= Taken + 1
    /\ Len(broadcast) = Taken + Len(image_queue)

\* The generator holds the next unit while the slot is still taken by the
\* unit before it.
C17_Witness ==
    /\ gen_pc = "put"
    /\ Len(image_queue) = 1
    /\ image_queue[1] # Sentinel
    /\ img.p = image_queue[1].p + 1

\* The condition under which the claim has the artifacts written: chunks is
\* not empty and a part of 1..totalParts is absent.
ArtifactsDue ==
    /\ chunks # EmptyDict
    /\ total_parts # None /\ IsInt(total_parts)
    /\ (1..total_parts) \ DOMAIN chunks # {}

\* After the step a manifest and a draft of this session are on disk.
ArtifactsWritten ==
    /\ missing_json' # NoManifest
    /\ missing_json'.filename = output_filename
    /\ missing_json'.total_parts = total_parts
    /\ output_filename \in DOMAIN draft_files'
    /\ draft_files'[output_filename] # NoFile

\* C13: artifacts on stall or interrupt.  The step that ends the session
\* STALLED or INTERRUPTED writes a manifest and a draft if chunks is
\* non-empty and a part of 1..totalParts is absent, and otherwise (chunks
\* empty, or every part present) leaves the disk as it was.
C13_ArtifactsOnExit ==
    [][(pc \notin {"STALLED", "INTERRUPTED"} /\ pc' \in {"STALLED", "INTERRUPTED"})
          => IF ArtifactsDue THEN ArtifactsWritten
             ELSE UNCHANGED <<draft_files, missing_json>>]_vars

(***************************************************************************)
(* The receiver with its worker processes: grabber_process fills           *)
(* frame_queue, NUM_DECODERS decoder_process workers move decoded symbols  *)
(* to result_queue, main_scanner takes them from there and terminates the  *)
(* workers in its finally clause.  The sender is run for part 1 of a file  *)
(* of two parts: the screen shows that symbol, or nothing that decodes.    *)
(***************************************************************************)
ScreenFile == [i \in 1..(CHUNK_SIZE_BYTES + 1) |-> 255]

ScreenSelector == {1}

\* A screenshot in which pyzbar finds no symbol.
Blank == Other("blank")

Frames == {Blank} \cup Generated(ScreenFile, ScreenSelector)

\* frame_queue.put(img, timeout=0.5) with the except queue.Full of line 130:
\* the frame is queued if there is room within the timeout, else dropped.
frame_put_without_timeout(q, frame) ==
    [done |-> Len(q) < FRAME_QUEUE_MAXSIZE, q |-> Append(q, frame)]

frame_queue_put(q, frame) ==
    [done |-> TRUE,
     q |-> IF Len(q) < FRAME_QUEUE_MAXSIZE THEN Append(q, frame) ELSE q]

\* result_queue.put(data): blocks (done is FALSE) while the queue is full.
result_put_nowait(q, data) ==
    [done |-> TRUE,
     q |-> IF Len(q) < RESULT_QUEUE_MAXSIZE THEN Append(q, data) ELSE q]

result_queue_put(q, data) ==
    [done |-> Len(q) < RESULT_QUEUE_MAXSIZE, q |-> Append(q, data)]

\* The list processes of main_scanner: 0 is the grabber, 1..NUM_DECODERS the
\* decoders, in the order they were started.
only_the_grabber == <<0>>

processes == <<0>> \o [d \in 1..NUM_DECODERS |-> d]

IsTerminated(p) ==
    IF p = 0 THEN grabber.pc = "terminated" ELSE decoders[p].pc = "terminated"

\* Line 125: ImageGrab.grab() returns a screenshot.
Grab ==
    /\ grabber.pc = "grab"
    /\ \E frame \in Frames : grabber' = [pc |-> "put", img |-> frame]
    /\ UNCHANGED <<frame_queue, result_queue, decoders>>
    /\ UNCHANGED <<senderVars, receiverVars>>

\* Lines 127-135: the put, or the drop on queue.Full, then the sleep.
GrabberPut ==
    /\ grabber.pc = "put"
    /\ LET r == frame_queue_put(frame_queue, grabber.img) IN
        /\ r.done
        /\ frame_queue' = r.q
    /\ grabber' = [pc |-> "grab", img |-> NoFrame]
    /\ UNCHANGED <<result_queue, decoders>>
    /\ UNCHANGED <<senderVars, receiverVars>>

\* Lines 154-157: frame_queue.get() blocks while the queue is empty; the
\* frame is decoded; without a symbol the worker loops.
DecoderGet(d) ==
    /\ decoders[d].pc = "get"
    /\ frame_queue # <<>>
    /\ frame_queue' = Tail(frame_queue)
    /\ decoders' = [decoders EXCEPT ![d] =
                        IF Head(frame_queue) = Blank
                        THEN [pc |-> "get", data |-> NoItem]
                        ELSE [pc |-> "put", data |-> Head(frame_queue)]]
    /\ UNCHANGED <<result_queue, grabber>>
    /\ UNCHANGED <<senderVars, receiverVars>>

\* Line 159
DecoderPut(d) ==
    /\ decoders[d].pc = "put"
    /\ LET r == result_queue_put(result_queue, decoders[d].data) IN
        /\ r.done
        /\ result_queue' = r.q
    /\ decoders' = [decoders EXCEPT ![d] = [pc |-> "get", data |-> NoItem]]
    /\ UNCHANGED <<frame_queue, grabber>>
    /\ UNCHANGED <<senderVars, receiverVars>>

\* Line 222: result_queue.get(timeout=0.05) returns the oldest result.
GetResult ==
    /\ pc = "get"
    /\ result_queue # <<>>
    /\ qr_data_string' = Head(result_queue)
    /\ result_queue' = Tail(result_queue)
    /\ pc' = "parse"
    /\ UNCHANGED <<chunks, total_parts, output_filename, last_part_found_time,
                   now, draft_files, missing_json, restored_files, session,
                   received>>
    /\ UNCHANGED <<frame_queue, grabber, decoders>>
    /\ UNCHANGED senderVars

\* Line 263: the queue stayed empty for the timeout.
GetTimeout ==
    /\ result_queue = <<>>
    /\ GetEmpty

\* The clock is read only once total_parts is bound (line 212) and the first
\* part sets last_part_found_time, so here time starts with the first part.
TickBound ==
    /\ total_parts # None
    /\ Tick

\* The ways the loop of main_scanner is left.
Ended == {"COMPLETE", "STALLED", "INTERRUPTED", "WRITE_FAULT"}

\* Lines 299-304, one turn of the for loop of the finally clause:
\* p.terminate() and p.join() on the next process of the list.
Terminate ==
    /\ pc \in Ended \cup {"CRASHED"}
    /\ \E i \in 1..Len(processes) :
        /\ ~IsTerminated(processes[i])
        /\ \A j \in 1..(i - 1) : IsTerminated(processes[j])
        /\ IF processes[i] = 0
           THEN /\ grabber' = [pc |-> "terminated", img |-> NoFrame]
                /\ UNCHANGED decoders
           ELSE /\ decoders' = [decoders EXCEPT ![processes[i]] =
                                    [pc |-> "terminated", data |-> NoItem]]
                /\ UNCHANGED grabber
    /\ UNCHANGED <<frame_queue, result_queue>>
    /\ UNCHANGED <<senderVars, receiverVars>>

\* What an earlier run that had every part of ScreenFile but those of
\* ScreenSelector held when it was interrupted.
HeldBefore ==
    LET total == CeilDiv(Len(ScreenFile), CHUNK_SIZE_BYTES) IN
    [n \in (1..total) \ ScreenSelector |->
        b64encode(get_file_chunks(ScreenFile, 0)[n])]

\* Lines 190-207: the state when the loop is entered, all workers started;
\* the disk is clean, or holds the draft and manifest of the earlier run.
InitPipeline ==
    /\ SenderInit(ScreenFile, ScreenSelector)
    /\ now = 0
    /\ ReceiverStart
    /\ session = 1
    /\ \/ /\ draft_files = [n \in FileNames |-> NoFile]
          /\ missing_json = NoManifest
       \/ LET total == CeilDiv(Len(ScreenFile), CHUNK_SIZE_BYTES) IN
          /\ draft_files = [n \in FileNames |->
                              IF n = FILE_NAME
                              THEN draft_write(HeldBefore, 1, total, <<>>)
                              ELSE NoFile]
          /\ missing_json = [filename |-> FILE_NAME, total_parts |-> total,
                             missing |-> missing_parts_of(HeldBefore, total)]
    /\ restored_files = [n \in FileNames \cup {NoName} |-> NoFile]
    /\ frame_queue = <<>>
    /\ result_queue = <<>>
    /\ grabber = [pc |-> "grab", img |-> NoFrame]
    /\ decoders = [d \in 1..NUM_DECODERS |-> [pc |-> "get", data |-> NoItem]]

NextPipeline ==
    \/ Grab
    \/ GrabberPut
    \/ \E d \in 1..NUM_DECODERS : DecoderGet(d)
    \/ \E d \in 1..NUM_DECODERS : DecoderPut(d)
    \/ StallCheck
    \/ GetTimeout
    \/ GetResult
    \/ \E can_write \in BOOLEAN : Parse(can_write)
    \/ Interrupt
    \/ TickBound
    \/ Terminate

SpecPipeline == InitPipeline /\ [][NextPipeline]_vars

\* The finally clause is reached and runs to its end on every way out of the
\* loop.
SpecTeardownFair == SpecPipeline /\ WF_vars(Terminate)

\* main_scanner keeps looping, every decoder keeps running, and a decoder
\* blocked in put gets a free slot of the queue in its turn.
SpecDecodersFair ==
    /\ SpecPipeline
    /\ WF_vars(StallCheck \/ GetTimeout \/ GetResult
                \/ \E can_write \in BOOLEAN : Parse(can_write))
    /\ \A d \in 1..NUM_DECODERS : WF_vars(DecoderGet(d)) /\ SF_vars(DecoderPut(d))

\* Only the grabber is assumed to keep running: its put returns or times out.
SpecGrabberFair == SpecPipeline /\ WF_vars(Grab \/ GrabberPut)

AllTerminated ==
    /\ grabber.pc = "terminated"
    /\ \A d \in 1..NUM_DECODERS : decoders[d].pc = "terminated"

\* C14: worker teardown.  Whenever the assembler loop has ended (COMPLETE,
\* STALLED, INTERRUPTED or a write fault on the final file), the frame
\* producer and every decoder worker are terminated afterwards and stay so.
C14_WorkerTeardown == [](pc \in Ended => <>[]AllTerminated)

\* The loop ended stalled while the grabber and a decoder were blocked in
\* their puts, and all workers have been terminated.
C14_Witness ==
    /\ pc = "STALLED"
    /\ AllTerminated
    /\ Len(frame_queue) = FRAME_QUEUE_MAXSIZE
    /\ Len(result_queue) = RESULT_QUEUE_MAXSIZE

Running == pc \in {"check", "get", "parse"}

\* A step loses no result: a decoder that holds a result keeps it until it
\* has appended it to the results queue (or is terminated), and the queue
\* changes only by such an append or by the assembler taking its head.
NoResultLost ==
    /\ \A d \in 1..NUM_DECODERS :
        (decoders[d].pc = "put" /\ decoders'[d] # decoders[d]) =>
            \/ decoders'[d].pc = "terminated"
            \/ result_queue' = Append(result_queue, decoders[d].data)
    /\ result_queue' # result_queue =>
            \/ \E d \in 1..NUM_DECODERS :
                /\ decoders[d].pc = "put" /\ decoders'[d].pc = "get"
                /\ result_queue' = Append(result_queue, decoders[d].data)
            \/ /\ result_queue # <<>>
               /\ result_queue' = Tail(result_queue)
               /\ pc = "get" /\ pc' = "parse"
               /\ qr_data_string' = Head(result_queue)

\* C15: no silent loss of decoded results.  No step drops a result a decoder
\* holds or one that is in the results queue, the queue never exceeds its
\* capacity, and while the assembler is running every result a decoder
\* holds is eventually enqueued and every enqueued result is eventually
\* taken by the assembler.
C15_NoSilentLoss ==
    /\ [][NoResultLost]_vars
    /\ [](Len(result_queue) <= RESULT_QUEUE_MAXSIZE)
    /\ \A d \in 1..NUM_DECODERS :
        [](decoders[d].pc = "put" => <>(decoders[d].pc # "put" \/ ~Running))
    /\ [](result_queue # <<>> => <>(pc = "parse" \/ ~Running))

\* Every decoder holds a result while the results queue is full and the
\* assembler is running.
C15_Witness ==
    /\ Running
    /\ Len(result_queue) = RESULT_QUEUE_MAXSIZE
    /\ \A d \in 1..NUM_DECODERS : decoders[d].pc = "put"

\* A step of the grabber out of its put queues the frame if there is room
\* and otherwise drops it, and goes on to the next grab.
PutOrDrop ==
    (grabber.pc = "put" /\ grabber'.pc \notin {"put", "terminated"}) =>
        /\ grabber'.pc = "grab"
        /\ frame_queue' = IF Len(frame_queue) < FRAME_QUEUE_MAXSIZE
                          THEN Append(frame_queue, grabber.img)
                          ELSE frame_queue

\* C16: lossy frame backpressure.  The frame queue never holds more than its
\* capacity; the grabber's put queues the frame or, when the queue is full,
\* drops it and goes on to the next grab; and the grabber never stays in its
\* put forever, even if no decoder ever takes a frame.
C16_LossyFrames ==
    /\ [](Len(frame_queue) <= FRAME_QUEUE_MAXSIZE)
    /\ [][PutOrDrop]_vars
    /\ [](grabber.pc = "put" => <>(grabber.pc # "put"))

\* The grabber has dropped a frame: it is back at the grab, the queue is
\* full and no decoder has taken a frame yet.
C16_Witness ==
    /\ grabber.pc = "grab"
    /\ Len(frame_queue) = FRAME_QUEUE_MAXSIZE
    /\ \A d \in 1..NUM_DECODERS : decoders[d].pc = "put"
    /\ Running

\* C18: the chunks map is monotone and bounded.  No step of the assembler
\* removes a key from chunks, and in every state in which totalParts is
\* bound, also right after a draft was loaded, len(chunks) <= totalParts.
C18_ChunksMonotoneBounded ==
    /\ [][DOMAIN chunks \subseteq DOMAIN chunks']_vars
    /\ []((total_parts # None /\ IsInt(total_parts)) => len(chunks) <= total_parts)

AllZero(bytes) == \A i \in 1..Len(bytes) : bytes[i] = 0

\* The entries of a chunks map whose payload does not decode to zero bytes only.
NonZeroEntries(d) ==
    LET keep == {k \in DOMAIN d : ~AllZero(b64decode(d[k]).bytes)}
    IN  [k \in keep |-> d[k]]

\* C19: draft save/load round trip.  When a chunks map with an absent part
\* has been saved as a draft, loading that draft in a fresh session with the
\* same totalParts gives exactly the entries of the map whose payload is not
\* all zero bytes, each with its payload, and no entry for an absent part.
C19_DraftRoundTrip ==
    (Saved /\ chunks # EmptyDict) =>
        load_draft(draft_files[output_filename], 1, 0, EmptyDict, total_parts)
            = NonZeroEntries(chunks)

\* C20: completion implies the full key set.  Whenever the parsing of an
\* item leaves len(chunks) = totalParts, so that the final file is written,
\* the keys of chunks are exactly 1..totalParts.
C20_CompleteHasAllKeys ==
    [][(pc = "parse" /\ is_complete(chunks', total_parts'))
          => DOMAIN chunks' = 1..total_parts']_vars

\* C21: atomic binding.  In every state totalParts is bound if and only if
\* fileName is bound, and if either is bound chunks is not empty.
C21_AtomicBinding ==
    /\ total_parts # None <=> output_filename # NoName
    /\ (total_parts # None \/ output_filename # NoName) => chunks # EmptyDict

(***************************************************************************)
(* The assembler under scheduling: the loop keeps running and time keeps   *)
(* passing.  Only differences of clock readings are observed (line 213),   *)
(* so once now has reached MaxTime a further second is counted by moving   *)
(* last_part_found_time back instead, until the elapsed time is past the   *)
(* timeout, where more time changes nothing.                               *)
(***************************************************************************)
TimePasses ==
    /\ pc \in {"check", "get"}
    /\ IF now < MaxTime
       THEN /\ now' = now + 1
            /\ UNCHANGED last_part_found_time
       ELSE /\ now - last_part_found_time <= SCAN_TIMEOUT_SECONDS
            /\ last_part_found_time' = last_part_found_time - 1
            /\ UNCHANGED now
    /\ UNCHANGED <<pc, qr_data_string, chunks, total_parts, output_filename,
                   draft_files, missing_json, restored_files, session, received>>
    /\ UNCHANGED senderVars
    /\ UNCHANGED workerVars

NextScheduled ==
    \/ StallCheck
    \/ GetEmpty
    \/ Get
    \/ \E can_write \in BOOLEAN : Parse(can_write)
    \/ Interrupt
    \/ TimePasses

SpecScheduled ==
    /\ Init
    /\ [][NextScheduled]_vars
    /\ WF_vars(StallCheck \/ GetEmpty \/ Get
                \/ \E can_write \in BOOLEAN : Parse(can_write))
    /\ SF_vars(TimePasses)

\* The first envelope was accepted and totalParts is bound to a number.
SessionBound ==
    /\ total_parts # None /\ IsInt(total_parts)
    /\ chunks # EmptyDict

\* C22: session termination.  Once the first envelope has been accepted and
\* totalParts is bound, the assembler loop eventually ends (COMPLETE,
\* STALLED, INTERRUPTED or write fault; an uncaught exception is counted as
\* an end as well), whatever items follow, given that the loop keeps being
\* scheduled and time advances.
C22_SessionTerminates ==
    [](SessionBound => <>(pc \in Ended \cup {"CRASHED"}))
=============================================================================
